---------------------------- MODULE Spec2Model ----------------------------
(***************************************************************************)
(* Model of samples/PythonWXPython/main.py: the wx frame with its three    *)
(* buttons, the buffered log handler drained by the 5 ms poll timer, the   *)
(* wx.CallAfter queue and the download worker threads.                     *)
(*                                                                         *)
(* Two kinds of thread exist.  The UI thread runs one event handler at a   *)
(* time (a click handler, a CallAfter callback, on_timer); a handler is    *)
(* one step, except on_timer, whose get_messages() is split between the    *)
(* copy (line 20) and the clear (line 21) because a worker thread can run  *)
(* between the two statements.  A worker thread runs download_thread.      *)
(*                                                                         *)
(* wx.CallAfter queues one event per call; the UI thread runs the queued   *)
(* callbacks in order, one per step, and a click or a timer event can be   *)
(* handled between two of them (the worker can be preempted between two    *)
(* CallAfter calls, so the queue can run dry in the middle of a group).    *)
(*                                                                         *)
(* Spec is the whole program and FairSpec the program under its            *)
(* scheduling.  FrameSpec (the frame without the timer) and LogSpec (the   *)
(* log handler and the timer, with any caller) are its two halves, each    *)
(* allowing every behaviour the program has on its own variables.          *)
(***************************************************************************)
EXTENDS Integers, Sequences, FiniteSets, TLC

(* ------------------------------ bounds --------------------------------- *)

\* Button clicks delivered to the frame during one run.
MaxClicks == 4

\* What the update library does on the worker thread besides returning or
\* raising, counted over one run: progress_callback invocations and log
\* records emitted from inside download_updates.
MaxLibEvents == 1

\* Worker threads: each is started by a Download click, and the first click
\* that does anything is a Check, so MaxClicks - 1 names are never exhausted.
Threads == 1..(MaxClicks - 1)

\* emit() calls in one run of the log handler taken alone (LogSpec).
MaxEmits == 3

\* Percentages the library reports to progress_callback.
PROGRESS == {50}

\* What check_for_updates can return: an UpdateInfo, or None.
None == "None"
INFOS == {"v2"}

(* ------------------------------- state --------------------------------- *)

VARIABLES
    buffer,          \* log_handler.buffer
    log_text,        \* lines appended to the log text control
    messages,        \* on_timer's local: the list get_messages() copied
    uiPc,            \* UI thread: "idle", or "get_messages" between lines 20 and 21
    update_manager,  \* self.update_manager
    update_info,     \* self.update_info
    check_enabled,   \* check_btn enabled flag
    download_enabled,\* download_btn enabled flag
    apply_enabled,   \* apply_btn enabled flag
    download_label,  \* download_btn label
    threads,         \* worker threads: position, captured original_label
    pending,         \* wx.CallAfter queue, FIFO
    sdkCalls,        \* history: calls made on the update manager
    emitted,         \* history: every message emit() appended, in order
    unread,          \* history: messages emitted since get_messages() last returned
    raced,           \* history: an emit ran between lines 20 and 21 of this call
    last,            \* history: the last click handler run and its outcome
    clicks,          \* clicks delivered so far
    libEvents        \* library progress calls and log records so far

vars == <<buffer, log_text, messages, uiPc, update_manager, update_info,
          check_enabled, download_enabled, apply_enabled, download_label,
          threads, pending, sdkCalls, emitted, unread, raced, last, clicks,
          libEvents>>

logVars == <<buffer, emitted, unread, raced>>
frameVars == <<update_manager, update_info, check_enabled, download_enabled,
               apply_enabled, download_label>>

Truthy(x) == x # None

\* A worker thread that has been started and has not left download_thread.
Alive(t) == threads[t].pc \in {"started", "line129", "downloading"}

(* --------------------------- log handler ------------------------------- *)

\* self.format(record) with the formatter '- %(levelname)s - %(message)s'.
\* id numbers the record (two records with the same text are two messages);
\* t is the download the record is about (0: none).
Format(level, text, t) ==
    [id |-> Len(emitted) + 1, level |-> level, text |-> text, t |-> t]

\* BufferedLogHandler.emit, reached through logging.info/warning/error.
Emit(level, text, t) ==
    /\ buffer' = Append(buffer, Format(level, text, t))
    /\ emitted' = Append(emitted, Format(level, text, t))
    /\ unread' = Append(unread, Format(level, text, t))
    /\ raced' = (raced \/ uiPc = "get_messages")

\* A slip in the slice: self.buffer[1:].
CopyBufferFromSecond == IF buffer = <<>> THEN <<>> ELSE Tail(buffer)

\* get_messages, line 20: messages = self.buffer[:]
CopyBuffer == buffer

\* get_messages, line 21: self.buffer.clear()
ClearBuffer == <<>>

\* on_timer up to line 20 of get_messages.
OnTimerCopy ==
    /\ uiPc = "idle"
    /\ messages' = CopyBuffer
    /\ uiPc' = "get_messages"
    /\ raced' = FALSE
    /\ UNCHANGED <<buffer, emitted, unread, log_text, frameVars, threads,
                   pending, sdkCalls, last, clicks, libEvents>>

\* on_timer from line 21 of get_messages: clear, return, AppendText each.
OnTimerDrain ==
    /\ uiPc = "get_messages"
    /\ buffer' = ClearBuffer
    /\ log_text' = log_text \o messages
    /\ messages' = <<>>
    /\ unread' = <<>>
    /\ uiPc' = "idle"
    /\ UNCHANGED <<emitted, raced, frameVars, threads, pending, sdkCalls,
                   last, clicks, libEvents>>

OnTimer == OnTimerCopy \/ OnTimerDrain

\* The handler taken alone: what its callers log.  Every logging call of the
\* file runs on the UI thread (in a click handler, lines 95-156, or in a
\* CallAfter callback, lines 135 and 141), so between two handlers.
LogCalls ==
    { <<"INFO", "Update available">>,
      <<"WARNING", "No update information available. Please check first.">>,
      <<"ERROR", "Failed to download update">> }

UiThreadLogs ==
    /\ uiPc = "idle"
    /\ Len(emitted) <= MaxEmits
    /\ \E c \in LogCalls : Emit(c[1], c[2], 0)
    /\ UNCHANGED <<log_text, messages, uiPc, frameVars, threads, pending,
                   sdkCalls, last, clicks, libEvents>>

\* A record the library logs on a worker thread, at any moment.
WorkerThreadLogs ==
    /\ Len(emitted) <= MaxEmits
    /\ Emit("INFO", "velopack", 1)
    /\ UNCHANGED <<log_text, messages, uiPc, frameVars, threads, pending,
                   sdkCalls, last, clicks, libEvents>>

(* ----------------------------- on_check -------------------------------- *)

\* A slip: Enable() in the else branch (lines 106-107) too.
CheckButtonsAlwaysEnabled(info) == TRUE

\* Lines 98-107: the buttons follow the truthiness of update_info.
CheckButtons(info) == Truthy(info)

\* Line 97's call, made on the manager line 93 has just assigned.
CheckCall == [fn |-> "check_for_updates", mgr |-> "mgr", info |-> None, t |-> 0]

\* A slip: the return of line 96 left out, the handler goes on to line 97
\* with the manager of an earlier click and finds no update.
OnCheckCtorFailsNoReturn ==
    /\ Emit("ERROR", "Failed to initialize update manager", 0)
    /\ last' = [op |-> "on_check", out |-> "ctor_raised", n |-> clicks + 1]
    /\ sdkCalls' = sdkCalls \cup {CheckCall}
    /\ update_info' = None
    /\ download_enabled' = FALSE
    /\ apply_enabled' = FALSE
    /\ UNCHANGED <<update_manager, check_enabled, download_label>>

\* velopack.UpdateManager(update_url) raises: log the error and return.
OnCheckCtorFails ==
    /\ Emit("ERROR", "Failed to initialize update manager", 0)
    /\ last' = [op |-> "on_check", out |-> "ctor_raised", n |-> clicks + 1]
    /\ UNCHANGED <<frameVars, sdkCalls>>

\* check_for_updates raises: the exception leaves the handler at line 97.
OnCheckRaises ==
    /\ update_manager' = "mgr"
    /\ sdkCalls' = sdkCalls \cup {CheckCall}
    /\ last' = [op |-> "on_check", out |-> "check_raised", n |-> clicks + 1]
    /\ UNCHANGED <<update_info, check_enabled, download_enabled,
                   apply_enabled, download_label, logVars>>

\* check_for_updates returns info (an UpdateInfo or None).
OnCheckReturns(info) ==
    /\ update_manager' = "mgr"
    /\ sdkCalls' = sdkCalls \cup {CheckCall}
    /\ update_info' = info
    /\ IF Truthy(info)
         THEN Emit("INFO", "Update available", 0)
         ELSE Emit("INFO", "No updates available", 0)
    /\ download_enabled' = CheckButtons(info)
    /\ apply_enabled' = CheckButtons(info)
    /\ last' = [op |-> "on_check", out |-> "returned", n |-> clicks + 1]
    /\ UNCHANGED <<check_enabled, download_label>>

on_check ==
    /\ uiPc = "idle"
    /\ check_enabled
    /\ clicks < MaxClicks
    /\ clicks' = clicks + 1
    /\ \/ OnCheckCtorFails
       \/ OnCheckRaises
       \/ \E info \in INFOS \cup {None} : OnCheckReturns(info)
    /\ UNCHANGED <<log_text, messages, uiPc, threads, pending, libEvents>>

(* ---------------------------- on_download ------------------------------ *)

\* progress_callback's label, f"Downloading... {progress}%".
ProgressLabel(p) == IF p = 50 THEN "Downloading... 50%" ELSE "Downloading... 100%"

CallAfter(fn, arg, t) == [fn |-> fn, arg |-> arg, t |-> t]

\* A slip: the buttons disabled (lines 116-117) before update_info is
\* looked at, so on the warning path too.
OnDownloadWarnsNoReturn ==
    /\ ~Truthy(update_info)
    /\ Emit("WARNING", "No update information available. Please check first.", 0)
    /\ last' = [op |-> "on_download", out |-> "warned", n |-> clicks + 1]
    /\ download_enabled' = FALSE
    /\ apply_enabled' = FALSE
    /\ UNCHANGED <<update_manager, update_info, check_enabled, download_label,
                   threads>>

\* Lines 111-113: no update information, warn and return.
OnDownloadWarns ==
    /\ ~Truthy(update_info)
    /\ Emit("WARNING", "No update information available. Please check first.", 0)
    /\ last' = [op |-> "on_download", out |-> "warned", n |-> clicks + 1]
    /\ UNCHANGED <<frameVars, threads>>

\* Lines 115-145: disable both buttons, start the worker thread.
OnDownloadStarts(t) ==
    /\ Truthy(update_info)
    /\ threads[t].pc = "unborn"
    /\ \A u \in Threads : u < t => threads[u].pc # "unborn"
    /\ download_enabled' = FALSE
    /\ apply_enabled' = FALSE
    /\ threads' = [threads EXCEPT ![t].pc = "started"]
    /\ last' = [op |-> "on_download", out |-> "started", n |-> clicks + 1]
    /\ UNCHANGED <<update_manager, update_info, check_enabled, download_label,
                   logVars>>

\* A click on the Download button; wx delivers none to a disabled button.
on_download ==
    /\ uiPc = "idle"
    /\ download_enabled
    /\ clicks < MaxClicks
    /\ clicks' = clicks + 1
    /\ \/ OnDownloadWarns
       \/ \E t \in Threads : OnDownloadStarts(t)
    /\ UNCHANGED <<log_text, messages, uiPc, pending, sdkCalls, libEvents>>

(* --------------------------- download_thread --------------------------- *)

\* Line 126: original_label = self.download_btn.GetLabel()
ThreadGetLabel(t) ==
    /\ threads[t].pc = "started"
    /\ threads' = [threads EXCEPT ![t].pc = "line129",
                                  ![t].original_label = download_label]
    /\ UNCHANGED <<log_text, messages, uiPc, frameVars, pending, sdkCalls,
                   logVars, last, clicks, libEvents>>

\* Line 129: the call reads self.update_manager and self.update_info now.
ThreadCall(t) ==
    /\ threads[t].pc = "line129"
    /\ threads' = [threads EXCEPT ![t].pc = "downloading"]
    /\ sdkCalls' = sdkCalls \cup
          {[fn |-> "download_updates", mgr |-> update_manager,
            info |-> update_info, t |-> t]}
    /\ UNCHANGED <<log_text, messages, uiPc, frameVars, pending, logVars,
                   last, clicks, libEvents>>

\* Lines 119-121: the library calls progress_callback on the worker thread.
ThreadProgress(t) ==
    /\ threads[t].pc = "downloading"
    /\ libEvents < MaxLibEvents
    /\ libEvents' = libEvents + 1
    /\ \E p \in PROGRESS :
          pending' = Append(pending, CallAfter("SetLabel", ProgressLabel(p), t))
    /\ UNCHANGED <<log_text, messages, uiPc, frameVars, threads, sdkCalls,
                   logVars, last, clicks>>

\* The library logs through the root logger while download_updates runs
\* (setup_logging, lines 158-172, routes every record to log_handler): emit
\* runs on the worker thread, whatever the UI thread is doing.
ThreadLibLog(t) ==
    /\ threads[t].pc = "downloading"
    /\ libEvents < MaxLibEvents
    /\ libEvents' = libEvents + 1
    /\ Emit("INFO", "velopack", t)
    /\ UNCHANGED <<log_text, messages, uiPc, frameVars, threads, pending,
                   sdkCalls, last, clicks>>

\* Lines 132-135: the callbacks queued when download_updates returns.
SuccessCallbacks(t) ==
    << CallAfter("SetLabel", threads[t].original_label, t),
       CallAfter("Enable", "download_btn", t),
       CallAfter("Enable", "apply_btn", t),
       CallAfter("logging.info", "Update downloaded successfully", t) >>

\* Lines 138-141: the callbacks queued when download_updates raises.
FailureCallbacks(t) ==
    << CallAfter("SetLabel", "Download", t),
       CallAfter("Enable", "download_btn", t),
       CallAfter("Enable", "apply_btn", t),
       CallAfter("logging.error", "Failed to download update", t) >>

ThreadReturns(t) ==
    /\ threads[t].pc = "downloading"
    /\ pending' = pending \o SuccessCallbacks(t)
    /\ threads' = [threads EXCEPT ![t].pc = "returned"]
    /\ UNCHANGED <<log_text, messages, uiPc, frameVars, sdkCalls, logVars,
                   last, clicks, libEvents>>

ThreadRaises(t) ==
    /\ threads[t].pc = "downloading"
    /\ pending' = pending \o FailureCallbacks(t)
    /\ threads' = [threads EXCEPT ![t].pc = "raised"]
    /\ UNCHANGED <<log_text, messages, uiPc, frameVars, sdkCalls, logVars,
                   last, clicks, libEvents>>

download_thread(t) ==
    \/ ThreadGetLabel(t)
    \/ ThreadCall(t)
    \/ ThreadProgress(t)
    \/ ThreadLibLog(t)
    \/ ThreadReturns(t)
    \/ ThreadRaises(t)

(* ----------------------------- wx.CallAfter ---------------------------- *)

\* What one queued callback does when the UI thread runs it.
RunCallback(cb) ==
    /\ download_label' = IF cb.fn = "SetLabel" THEN cb.arg ELSE download_label
    /\ download_enabled' =
          IF cb.fn = "Enable" /\ cb.arg = "download_btn" THEN TRUE
          ELSE download_enabled
    /\ apply_enabled' =
          IF cb.fn = "Enable" /\ cb.arg = "apply_btn" THEN TRUE
          ELSE apply_enabled
    /\ IF cb.fn = "logging.info" THEN Emit("INFO", cb.arg, cb.t)
       ELSE IF cb.fn = "logging.error" THEN Emit("ERROR", cb.arg, cb.t)
       ELSE UNCHANGED logVars

\* The UI thread runs the oldest queued callback.
ProcessPending ==
    /\ uiPc = "idle"
    /\ pending # <<>>
    /\ RunCallback(Head(pending))
    /\ pending' = Tail(pending)
    /\ UNCHANGED <<log_text, messages, uiPc, update_manager, update_info,
                   check_enabled, threads, sdkCalls, last, clicks, libEvents>>

(* ------------------------------ on_apply ------------------------------- *)

\* Lines 148-150.
OnApplyWarns ==
    /\ ~Truthy(update_info)
    /\ Emit("WARNING", "No update information available. Please check first.", 0)
    /\ last' = [op |-> "on_apply", out |-> "warned", n |-> clicks + 1]
    /\ UNCHANGED sdkCalls

\* A slip: logging.info placed before the call of line 153, so that the
\* success record is logged whether or not the call raises.
OnApplyCallsLogsFirst(raises) ==
    /\ Truthy(update_info)
    /\ sdkCalls' = sdkCalls \cup
          {[fn |-> "apply_updates_and_restart", mgr |-> update_manager,
            info |-> update_info, t |-> 0]}
    /\ Emit("INFO", "Update applied successfully", 0)
    /\ last' = [op |-> "on_apply", out |-> IF raises THEN "raised" ELSE "applied",
                n |-> clicks + 1]

\* Lines 152-156: the call, then the INFO record or the ERROR record.
OnApplyCalls(raises) ==
    /\ Truthy(update_info)
    /\ sdkCalls' = sdkCalls \cup
          {[fn |-> "apply_updates_and_restart", mgr |-> update_manager,
            info |-> update_info, t |-> 0]}
    /\ IF raises
         THEN Emit("ERROR", "Failed to apply update", 0)
         ELSE Emit("INFO", "Update applied successfully", 0)
    /\ last' = [op |-> "on_apply", out |-> IF raises THEN "raised" ELSE "applied",
                n |-> clicks + 1]

\* A click on the Apply button; wx delivers none to a disabled button.
on_apply ==
    /\ uiPc = "idle"
    /\ apply_enabled
    /\ clicks < MaxClicks
    /\ clicks' = clicks + 1
    /\ \/ OnApplyWarns
       \/ \E raises \in BOOLEAN : OnApplyCalls(raises)
    /\ UNCHANGED <<log_text, messages, uiPc, frameVars, threads, pending,
                   libEvents>>

(* ---------------------------- construction ----------------------------- *)

InitMsg == [id |-> 1, level |-> "INFO", text |-> "GUI initialized and ready",
            t |-> 0]

\* The state when MainFrame.__init__ returns: buttons made, Download and
\* Apply disabled, the timer started, the first record logged.
Init ==
    /\ buffer = <<InitMsg>>
    /\ emitted = <<InitMsg>>
    /\ unread = <<InitMsg>>
    /\ raced = FALSE
    /\ log_text = <<>>
    /\ messages = <<>>
    /\ uiPc = "idle"
    /\ update_manager = None
    /\ update_info = None
    /\ check_enabled = TRUE
    /\ download_enabled = FALSE
    /\ apply_enabled = FALSE
    /\ download_label = "Download"
    /\ threads = [t \in Threads |->
                    [pc |-> "unborn", original_label |-> "Download"]]
    /\ pending = <<>>
    /\ sdkCalls = {}
    /\ last = [op |-> "init", out |-> "none", n |-> 0]
    /\ clicks = 0
    /\ libEvents = 0

(* --------------------------- specifications --------------------------- *)

\* The frame: click handlers, CallAfter callbacks, worker threads.
FrameNext ==
    \/ ProcessPending
    \/ on_check
    \/ on_download
    \/ on_apply
    \/ \E t \in Threads : download_thread(t)

\* The program: the frame and the poll timer.
Next ==
    \/ OnTimer
    \/ FrameNext

Spec == Init /\ [][Next]_vars

\* The program under the scheduling wx and the interpreter give it: the
\* timer keeps firing, the event loop keeps running queued callbacks between
\* handlers, every started thread runs, every download_updates call ends.
\* Clicks are the user's and are not forced.
FairSpec ==
    /\ Spec
    /\ WF_vars(OnTimer)
    /\ SF_vars(ProcessPending)
    /\ \A t \in Threads : WF_vars(download_thread(t))

\* The frame taken alone.  No frame step reads what on_timer writes
\* (log_text, messages, the emptied buffer), so every behaviour of Spec,
\* with its timer steps left out, is a behaviour of FrameSpec.
FrameSpec == Init /\ [][FrameNext]_vars

\* The log handler and the timer taken alone, with any caller logging.
LogNext ==
    \/ OnTimer
    \/ UiThreadLogs
    \/ WorkerThreadLogs

LogSpec == Init /\ [][LogNext]_vars

(* ------------------------------- claims -------------------------------- *)

\* The most records one run of Spec can log: the one of __init__, one per
\* click, one per library event.
MsgIds == 1..(1 + MaxClicks + MaxLibEvents)

Shown(i) == \E k \in DOMAIN log_text : log_text[k].id = i

\* C1: no log record is lost or duplicated on its way to the text control:
\* at every moment the lines shown, followed by the records still in the
\* buffer, are exactly the records emitted, each once, in emit order.
C1_NoLossNoDuplication == log_text \o buffer = emitted

\* C2: get_messages() returns all buffered messages and clears the buffer.
\* A call starts by copying exactly the messages emitted since the previous
\* call returned (none, when it follows that call immediately); when no emit
\* ran during the call, it returns exactly those messages and leaves the
\* buffer empty.
C2_GetMessagesDrains ==
    [][ /\ (uiPc = "idle" /\ uiPc' = "get_messages") => messages' = unread
        /\ (uiPc = "get_messages" /\ uiPc' = "idle" /\ ~raced) =>
              /\ messages = unread
              /\ buffer' = <<>> ]_vars

\* C2's case: a second get_messages() call has copied the empty list, after
\* a first one returned two messages or more, all of them shown.
C2_Witness ==
    /\ uiPc = "get_messages"
    /\ messages = <<>>
    /\ ~raced
    /\ Len(log_text) >= 2
    /\ log_text = emitted

\* C3: with the timer firing for ever, every record emit() appended is
\* eventually shown in the text control, and the buffer is empty infinitely
\* often.
C3_EventuallyShown ==
    /\ \A i \in MsgIds : [](Len(emitted) >= i => <>Shown(i))
    /\ []<>(buffer = <<>>)
\* C4: at most one download worker thread exists at any time.
C4_OneWorkerThread == Cardinality({t \in Threads : Alive(t)}) <= 1

\* The click handler run by this step, if the step is a click.
Clicked(op) == last'.n # last.n /\ last'.op = op

\* C5: Download and Apply start disabled; an on_check in which
\* check_for_updates returned leaves both enabled if it returned an update
\* and both disabled if it returned none; Check is enabled in every state.
C5_CheckSetsButtons ==
    /\ ~download_enabled /\ ~apply_enabled
    /\ [][ (Clicked("on_check") /\ last'.out = "returned") =>
              /\ download_enabled' = Truthy(update_info')
              /\ apply_enabled' = Truthy(update_info') ]_vars
    /\ []check_enabled

\* C5's case: a second Check has returned no update after an earlier one
\* returned an update, and turned the two buttons off again.
C5_Witness ==
    /\ last.op = "on_check" /\ last.out = "returned" /\ last.n >= 2
    /\ ~Truthy(update_info)
    /\ ~download_enabled /\ ~apply_enabled
    /\ \E i \in DOMAIN emitted : emitted[i].text = "Update available"

\* A download whose completion callbacks have not yet run on the UI thread:
\* its thread is alive, or its first Enable callback is still queued.
Downloading(t) ==
    \/ Alive(t)
    \/ \E i \in DOMAIN pending :
          pending[i].t = t /\ pending[i].fn = "Enable"
                           /\ pending[i].arg = "download_btn"

\* C6: while a download is in progress, Download and Apply are disabled.
C6_DisabledDuringDownload ==
    (\E t \in Threads : Downloading(t)) => ~download_enabled /\ ~apply_enabled

\* C7: download_updates and apply_updates_and_restart are called only after
\* a check returned an update, on an update manager that is not None and
\* with a truthy update_info argument.
C7_CallsFollowCheck ==
    \A c \in sdkCalls :
        c.fn \in {"download_updates", "apply_updates_and_restart"} =>
            /\ c.mgr # None
            /\ Truthy(c.info)
            /\ \E i \in DOMAIN emitted : emitted[i].text = "Update available"

\* C8: with update_info absent, on_download and on_apply log exactly one
\* WARNING record and change nothing else: no thread, no update-manager
\* call, no queued callback, and the frame's fields as they were.
C8_WarnOnly ==
    [][ ((Clicked("on_download") \/ Clicked("on_apply")) /\ ~Truthy(update_info)) =>
           /\ Len(emitted') = Len(emitted) + 1
           /\ SubSeq(emitted', 1, Len(emitted)) = emitted
           /\ emitted'[Len(emitted')].level = "WARNING"
           /\ UNCHANGED <<frameVars, threads, sdkCalls, pending>> ]_vars

\* C8's case: on_download ran with update_info absent and warned.
C8_Witness ==
    /\ last.op = "on_download" /\ last.out = "warned"
    /\ ~Truthy(update_info)
    /\ emitted[Len(emitted)].level = "WARNING"

\* C9: once every started download has ended and every queued callback has
\* run, the Download button's label is "Download".
C9_LabelRestored ==
    ((\A t \in Threads : ~Alive(t)) /\ pending = <<>>) =>
        download_label = "Download"

\* The outcome records logged for download t.
Outcomes(t) ==
    {i \in DOMAIN emitted :
        /\ emitted[i].t = t
        /\ emitted[i].text \in {"Update downloaded successfully",
                                "Failed to download update"}}

\* Exactly one outcome record, the one that fits how the download ended.
OutcomeLogged(t) ==
    /\ Cardinality(Outcomes(t)) = 1
    /\ \A i \in Outcomes(t) :
          IF threads[t].pc = "returned"
            THEN emitted[i].level = "INFO"
                 /\ emitted[i].text = "Update downloaded successfully"
            ELSE emitted[i].level = "ERROR"
                 /\ emitted[i].text = "Failed to download update"

\* download_updates has returned or raised in thread t and the callbacks
\* the thread queued have not all run yet.
Ending(t) ==
    /\ threads[t].pc \in {"returned", "raised"}
    /\ \E i \in DOMAIN pending : pending[i].t = t

\* C10: when download_updates has returned or raised, eventually Download
\* and Apply are both enabled again, and from some point on exactly one
\* outcome record is logged for that download, the one that fits.
C10_DownloadEnds ==
    \A t \in Threads :
        [](Ending(t) =>
              /\ <>(download_enabled /\ apply_enabled)
              /\ <>[]OutcomeLogged(t))

\* The step appends exactly one record, of this level and text.
Logs(level, text) ==
    /\ Len(emitted') = Len(emitted) + 1
    /\ SubSeq(emitted', 1, Len(emitted)) = emitted
    /\ emitted'[Len(emitted')].level = level
    /\ emitted'[Len(emitted')].text = text

\* C11: when constructing the update manager fails, on_check logs one ERROR
\* record and returns: update_manager, update_info and both buttons' enabled
\* flags are as before the click, and check_for_updates is not called.
C11_CtorFailureChangesNothing ==
    [][ (Clicked("on_check") /\ last'.out = "ctor_raised") =>
           /\ Logs("ERROR", "Failed to initialize update manager")
           /\ UNCHANGED <<update_manager, update_info, download_enabled,
                          apply_enabled>>
           /\ sdkCalls' = sdkCalls ]_vars

\* C11's case: the constructor failed in a Check click that came after an
\* update was found, with both buttons on: they and update_info are kept.
C11_Witness ==
    /\ last.op = "on_check" /\ last.out = "ctor_raised"
    /\ Truthy(update_info) /\ update_manager # None
    /\ download_enabled /\ apply_enabled
    /\ emitted[Len(emitted)].level = "ERROR"

\* C12: "Update applied successfully" is logged only by an on_apply whose
\* apply_updates_and_restart call returned; when the call raises, on_apply
\* logs one ERROR "Failed to apply update" record instead and leaves
\* update_manager, update_info and the buttons as they were.
C12_ApplyOutcome ==
    [][ /\ (Len(emitted') > Len(emitted)
            /\ emitted'[Len(emitted')].text = "Update applied successfully") =>
               Clicked("on_apply") /\ last'.out = "applied"
        /\ (Clicked("on_apply") /\ last'.out = "applied") =>
               Logs("INFO", "Update applied successfully")
        /\ (Clicked("on_apply") /\ last'.out = "raised") =>
               /\ Logs("ERROR", "Failed to apply update")
               /\ UNCHANGED <<update_manager, update_info, check_enabled,
                              download_enabled, apply_enabled,
                              download_label>> ]_vars

\* C12's case: apply_updates_and_restart raised in an on_apply that came
\* after one in which it returned; each left its own record.
C12_Witness ==
    /\ last.op = "on_apply" /\ last.out = "raised"
    /\ emitted[Len(emitted)].text = "Failed to apply update"
    /\ \E i \in DOMAIN emitted : emitted[i].text = "Update applied successfully"
    /\ Truthy(update_info) /\ apply_enabled

=============================================================================
